---- MODULE Spec2Model ----
(***************************************************************************)
(* Query-routing pipeline of the CA Final question service (main.py):      *)
(* the /process-query handler, its text helpers, the audit log writer.     *)
(*                                                                         *)
(* Texts on which the code works character by character (the query, the    *)
(* sourceDetails and question fields, the rewritten query) are sequences   *)
(* of one-character strings.  Tags, lemmas and method labels are only      *)
(* compared or scored as wholes and stay plain strings.                    *)
(***************************************************************************)
EXTENDS Integers, Sequences, FiniteSets, TLC

(***************************************************************************)
(* Bounds of the model.                                                    *)
(***************************************************************************)
\* requests handled in one behaviour (the audit log grows without bound)
MaxRequests == 2
\* records held by the backend collection in the larger database
MaxRecords == 12
\* threads that run log_query at the same time
NumLoggers == 2

(***************************************************************************)
(* Python str operations used by the code.                                 *)
(***************************************************************************)
UpperChars == <<"A","B","C","D","E","F","G","H","I","J","K","L","M",
                "N","O","P","Q","R","S","T","U","V","W","X","Y","Z">>

LowerChars == <<"a","b","c","d","e","f","g","h","i","j","k","l","m",
                "n","o","p","q","r","s","t","u","v","w","x","y","z">>

DigitChars == <<"0","1","2","3","4","5","6","7","8","9">>

Range(s) == {s[i] : i \in DOMAIN s}

Min(a, b) == IF a <= b THEN a ELSE b

\* str.lower() on one character
LowerChar(c) ==
    IF c \in Range(UpperChars)
    THEN LowerChars[CHOOSE i \in DOMAIN UpperChars : UpperChars[i] = c]
    ELSE c

\* str.lower()
lower(s) == [i \in DOMAIN s |-> LowerChar(s[i])]

RECURSIVE lstrip(_)
lstrip(s) == IF s # << >> /\ Head(s) = " " THEN lstrip(Tail(s)) ELSE s

RECURSIVE rstrip(_)
rstrip(s) ==
    IF s # << >> /\ s[Len(s)] = " " THEN rstrip(SubSeq(s, 1, Len(s) - 1)) ELSE s

\* str.strip()
strip(s) == rstrip(lstrip(s))

\* str.replace(old, new) for a one-character old and a new of length 0 or 1
RECURSIVE replace(_, _, _)
replace(s, old, new) ==
    IF s = << >> THEN << >>
    ELSE (IF Head(s) = old THEN new ELSE <<Head(s)>>) \o replace(Tail(s), old, new)

\* str.startswith(prefix)
startswith(s, prefix) ==
    Len(s) >= Len(prefix) /\ SubSeq(s, 1, Len(prefix)) = prefix

\* the `in` operator on two str: sub occurs in s (the empty str occurs in every str)
contains(s, sub) ==
    \E i \in 1..(Len(s) + 1) :
        i + Len(sub) - 1 <= Len(s) /\ SubSeq(s, i, i + Len(sub) - 1) = sub

\* str.isdigit(): non-empty and every character a digit
isdigit(s) == s # << >> /\ \A i \in DOMAIN s : s[i] \in Range(DigitChars)

DigitValue(c) == (CHOOSE i \in DOMAIN DigitChars : DigitChars[i] = c) - 1

\* int(s) for a str of digits
RECURSIVE int(_)
int(s) ==
    IF s = << >> THEN 0
    ELSE 10 * int(SubSeq(s, 1, Len(s) - 1)) + DigitValue(s[Len(s)])

\* str(n) for n >= 0
RECURSIVE str(_)
str(n) ==
    IF n < 10 THEN <<DigitChars[n + 1]>>
    ELSE str(n \div 10) \o <<DigitChars[(n % 10) + 1]>>

\* three digits, zero padded
Pad3(n) ==
    <<DigitChars[(n \div 100) + 1], DigitChars[((n \div 10) % 10) + 1],
      DigitChars[(n % 10) + 1]>>

\* f"{n:,}": decimal digits in groups of three separated by commas
RECURSIVE format_thousands(_)
format_thousands(n) ==
    IF n < 1000 THEN str(n)
    ELSE format_thousands(n \div 1000) \o <<",">> \o Pad3(n % 1000)

(***************************************************************************)
(* Direct command filters (command_filters).                               *)
(***************************************************************************)
command_filters ==
    ( <<"%","e","x","a","m","p","l","e">> :> {<<"e","x","a","m","p","l","e">>} ) @@
    ( <<"%","i","l","l","u","s","t","r","a","t","i","o","n">> :> {<<"i","l","l","u","s","t","r","a","t","i","o","n">>} ) @@
    ( <<"%","t","e","s","t","y","o","u","r","k","n","o","w","l","e","d","g","e">> :> {<<"t","e","s","t"," ","y","o","u","r"," ","k","n","o","w","l","e","d","g","e">>} ) @@
    ( <<"%","t","y","k">> :> {<<"t","e","s","t"," ","y","o","u","r"," ","k","n","o","w","l","e","d","g","e">>} ) @@
    ( <<"%","m","t","p">> :> {<<"m","t","p">>} ) @@
    ( <<"%","m","o","d","e","l","q","u","e","s","t","i","o","n","p","a","p","e","r">> :> {<<"m","t","p">>} ) @@
    ( <<"%","r","t","p">> :> {<<"r","t","p">>} ) @@
    ( <<"%","r","e","v","i","s","i","o","n","t","e","s","t","p","a","p","e","r">> :> {<<"r","t","p">>} ) @@
    ( <<"%","p","a","s","t","p","a","p","e","r","s">> :> {<<"p","a","s","t"," ","p","a","p","e","r","s">>} ) @@
    ( <<"%","o","t","h","e","r">> :> {<<"o","t","h","e","r">>} ) @@
    ( <<"%","a","l","l">> :> {<<"e","x","a","m","p","l","e">>, <<"i","l","l","u","s","t","r","a","t","i","o","n">>, <<"t","e","s","t"," ","y","o","u","r"," ","k","n","o","w","l","e","d","g","e">>,
                  <<"m","t","p">>, <<"r","t","p">>, <<"p","a","s","t"," ","p","a","p","e","r","s">>, <<"o","t","h","e","r">>} )

(***************************************************************************)
(* expand_variants(term): the spelling and format variants of a term.      *)
(***************************************************************************)
\* expand_variants without the thousands-separated form of a number
expand_variants_no_number(term0) ==
    LET term == strip(lower(term0))
        term_nocomma == replace(term, ",", << >>)
    IN  {term, term_nocomma} \cup
        { replace(term, "-", <<" ">>),
          replace(term, " ", <<"-">>),
          replace(replace(term, "-", << >>), " ", << >>) }

expand_variants(term0) ==
    LET term == strip(lower(term0))
        term_nocomma == replace(term, ",", << >>)
        number == IF isdigit(term_nocomma)
                  THEN {format_thousands(int(term_nocomma))}
                  ELSE {}
    IN  {term, term_nocomma} \cup number \cup
        { replace(term, "-", <<" ">>),
          replace(term, " ", <<"-">>),
          replace(replace(term, "-", << >>), " ", << >>) }

(***************************************************************************)
(* Question records of the backend collection.                             *)
(***************************************************************************)
\* the keys every response projects a record onto
ResponseKeys ==
    {"chapter", "sourceDetails", "sourceType", "conceptTested", "conceptSummary",
     "question", "answer", "howToApproach"}

SourceDetailsValues ==
    << <<"E","x","a","m","p","l","e"," ","3">>, <<"I","L","L","U","S","T","R","A","T","I","O","N"," ","5">>, <<"T","e","s","t"," ","Y","o","u","r"," ","K","n","o","w","l","e","d","g","e"," ","2">>,
       <<"M","T","P"," ","M","a","y"," ","2","0","2","2">>, <<"R","T","P"," ","N","o","v"," ","2","0","2","1">>, <<"P","a","s","t"," ","P","a","p","e","r","s"," ","2","0","1","9">>, <<"O","t","h","e","r">> >>

QuestionValues ==
    << <<"C","o","s","t"," ","i","s"," ","1",",","2","5","0">>, <<"N","R","V"," ","o","f"," ","1","2","5","0"," ","u","n","i","t","s">>, <<"G","o","o","d","w","i","l","l"," ","o","f"," ","1","-","2","5","0">>,
       <<"V","a","l","u","e"," ","1"," ","2","5","0"," ","n","o","w">>, <<"I","n","v","e","n","t","o","r","y"," ","c","o","s","t">> >>

TagValues ==
    << {"inventory", "nrv"}, {"cost", "inventory cost"}, {"inventory valuation"},
       {"goodwill", "inventory"}, {"inventory cost"} >>

Cycle(values, i) == values[((i - 1) % Len(values)) + 1]

\* the properties of the i-th object of the collection
Properties(i) ==
    [ chapter        |-> <<"I","n","v","e","n","t","o","r","i","e","s">>,
      sourceDetails  |-> Cycle(SourceDetailsValues, i),
      sourceType     |-> <<"I","C","A","I">>,
      conceptTested  |-> <<"N","R","V">>,
      conceptSummary |-> << >>,
      question       |-> Cycle(QuestionValues, i),
      answer         |-> str(i),
      howToApproach  |-> << >>,
      tags           |-> IF i = 2 THEN {"inventories"} ELSE Cycle(TagValues, i) ]

\* the collections the backend may hold: a small and a large one
RecordCounts == {3, MaxRecords}

Collection(n) == [i \in 1..n |-> Properties(i)]

\* {key: o.properties.get(key) for key in [...]}
Project(props) == [key \in ResponseKeys |-> props[key]]

ProjectAll(objs) == [i \in DOMAIN objs |-> Project(objs[i])]

(***************************************************************************)
(* External collaborators: spelling corrector, rewriter, lemmatizer,       *)
(* approximate matcher, retrieval backend.                                 *)
(***************************************************************************)
\* the behaviours of TextBlob(text).correct(): leave the text alone, or
\* replace the words it does not know
Correctors == {"unchanged", "fixing"}

\* the texts the fixing corrector changes
Fixes == ( <<"%","t","y","k">> :> <<"%","t","h","e">> )

correct_spelling(c, text) ==
    IF c = "fixing" /\ text \in DOMAIN Fixes THEN Fixes[text] ELSE text

\* the queries submitted to the endpoint
Queries ==
    { <<"%","t","y","k">>, <<" ","%","T","Y","K"," ">>,
      <<"#","1",",","2","5","0">>, <<"#","1","2","5","0">>, <<"#","1","-","2","5","0">>,
      <<"e","x","p","l","a","i","n"," ","g","o","o","d","w","i","l">>, <<"i","n","v","e","n","t","o","r","y">> }

\* what the rewriter may answer for a text (already stripped), when it answers
Rewrites(text) == {text, <<"e","x","p","l","a","i","n"," ","t","h","e"," ","a","c","c","o","u","n","t","i","n","g"," ","t","r","e","a","t","m","e","n","t"," ","o","f"," ","g","o","o","d","w","i","l","l">>}

\* lemmas of the tokens of a text that are neither stop words nor punctuation
Lemmas ==
    ( <<"%","t","h","e">> :> << >> ) @@
    ( <<"e","x","p","l","a","i","n"," ","g","o","o","d","w","i","l">> :> <<"explain", "goodwil">> ) @@
    ( <<"i","n","v","e","n","t","o","r","y">> :> <<"inventory">> )

normalize_tokens(text) == IF text \in DOMAIN Lemmas THEN Lemmas[text] ELSE << >>

\* similarity of a term and a tag on the 0..100 scale
Score(term, tag) ==
    IF term = tag THEN 100
    ELSE IF term = "goodwil" /\ tag = "goodwill" THEN 93
    ELSE IF term = "inventory" /\ tag \in {"inventory valuation", "inventory cost"} THEN 90
    ELSE IF term = "inventory" /\ tag = "inventories" THEN 80
    ELSE 30

\* how many objects the backend finds within the distance of a query
NearCounts == {0, MaxRecords}

\* collection.query.fetch_objects(limit): the first `limit` objects
fetch_objects(records, limit) == SubSeq(records, 1, Min(limit, Len(records)))

\* collection.query.near_text(query, distance, limit): at most `limit` of the
\* `found` objects within the distance
near_text(records, found, limit) ==
    SubSeq(records, 1, Min(limit, Min(found, Len(records))))

(***************************************************************************)
(* fuzzy_terms_match(query_terms, all_tags, threshold=80).                 *)
(* process.extract returns the `limit` best-scoring tags; among tags of    *)
(* equal score the order of all_tags decides, and all_tags is built from a *)
(* set, so any of them may be returned.  The operators give the set of     *)
(* possible results.                                                       *)
(***************************************************************************)
ExtractLimit == 3

Threshold == 80

extract(term, all_tags, limit) ==
    { T \in SUBSET all_tags :
        /\ Cardinality(T) = Min(limit, Cardinality(all_tags))
        /\ \A t \in T : \A u \in all_tags \ T : Score(term, t) >= Score(term, u) }

RECURSIVE fuzzy_terms_match(_, _, _)
fuzzy_terms_match(query_terms, all_tags, threshold) ==
    IF query_terms = << >> THEN {{}}
    ELSE { {t \in T : Score(Head(query_terms), t) >= threshold} \cup rest :
             T \in extract(Head(query_terms), all_tags, ExtractLimit),
             rest \in fuzzy_terms_match(Tail(query_terms), all_tags, threshold) }

(***************************************************************************)
(* State.                                                                  *)
(***************************************************************************)
VARIABLES
    records,       \* the objects of the backend collection, in its order
    history,       \* one entry per request handled: input, calls, outcome
    log,           \* the rows of query_log.csv
    fileExists,    \* query_log.csv exists
    clock,         \* datetime.now(), counted in readings
    pc,            \* per logging thread: its position in log_query
    write_header,  \* per logging thread: its local write_header
    buf,           \* per logging thread: rows written to its file object, not yet flushed
    job            \* per logging thread: the arguments of its log_query call

vars == <<records, history, log, fileExists, clock, pc, write_header, buf, job>>

routerVars == <<records, history>>

loggerVars == <<pc, write_header, buf, job>>

Loggers == 1..NumLoggers

(***************************************************************************)
(* log_query(original, rewritten, method, count).                          *)
(***************************************************************************)
Header == <<"Timestamp", "Original", "Rewritten", "Method", "Count">>

LogRow(timestamp, original, rewritten, method, count) ==
    <<timestamp, original, rewritten, method, count>>

\* the rows one call writes: the header when the file was absent, then the row
RowsWritten(header, row) == (IF header THEN <<Header>> ELSE << >>) \o <<row>>

\* a whole call, run with no other call in between
log_query(original, rewritten, method, count) ==
    /\ log' = log \o RowsWritten(~fileExists,
                                 LogRow(clock, original, rewritten, method, count))
    /\ fileExists' = TRUE
    /\ clock' = clock + 1

NoLog == UNCHANGED <<log, fileExists, clock>>

(***************************************************************************)
(* process_query_api(input_data): the branches of the handler.             *)
(***************************************************************************)
FetchLimit == 1000

SemanticLimit == 10

ResultCap == 10

\* lines 159-167: the query is stripped, then spell-corrected
Corrected(c, query) == correct_spelling(c, strip(query))

IsCommand(raw_query) == lower(raw_query) \in DOMAIN command_filters

IsHashtag(raw_query) == startswith(raw_query, <<"#">>)

\* the objects whose sourceDetails contains one of the filters
DirectFilterResults(filters, all_objs) ==
    LET Keep(o) == \E f \in filters : contains(lower(o.sourceDetails), f)
    IN  ProjectAll(SelectSeq(all_objs, Keep))

NormalizeText(text) == replace(replace(text, "-", <<" ">>), ",", << >>)

\* the objects whose question contains one of the variants
HashtagResults(variants, all_objs) ==
    LET Keep(o) ==
            \E v \in variants :
                contains(NormalizeText(lower(o.question)), NormalizeText(v))
    IN  ProjectAll(SelectSeq(all_objs, Keep))

AllTags(all_objs) == UNION {all_objs[i].tags : i \in DOMAIN all_objs}

\* the objects with a matched tag
Filtered(all_objs, matched_tags) ==
    LET Keep(o) == o.tags \cap matched_tags # {}
    IN  SelectSeq(all_objs, Keep)

\* the fuzzy matches without the [:10] slice
FuzzyMatches_uncapped(filtered) == ProjectAll(filtered)

\* filtered[:10], projected
FuzzyMatches(filtered) == ProjectAll(SubSeq(filtered, 1, Min(ResultCap, Len(filtered))))

Entry(query, raw_query, status, body, calls, failed) ==
    [ query |-> query, raw_query |-> raw_query, status |-> status, body |-> body,
      calls |-> calls, failed |-> failed,
      variants |-> {}, rewritten |-> << >>, objects |-> 0,
      matched_tags |-> {}, filtered |-> 0, logged |-> << >> ]

\* an exception that leaves the handler: FastAPI answers 500
Unhandled(query, raw_query, calls, failed) ==
    Entry(query, raw_query, "unhandled", [detail |-> "Internal Server Error"],
          calls, failed)

\* the server accepts a request
Accepting == Len(history) < MaxRequests

Handle(entry) ==
    /\ history' = Append(history, entry)
    /\ UNCHANGED <<records, loggerVars>>

\* lines 169-181
DirectFilterBranch ==
    /\ Accepting
    /\ \E query \in Queries, c \in Correctors, fetched \in BOOLEAN :
        LET raw_query == Corrected(c, query)
            filters == command_filters[lower(raw_query)]
            all_objs == fetch_objects(records, FetchLimit)
        IN  /\ IsCommand(raw_query)
            /\ NoLog
            /\ IF fetched
               THEN Handle(Entry(query, raw_query, "ok",
                        [method |-> "Direct Filter",
                         matches |-> DirectFilterResults(filters, all_objs)],
                        <<"fetch_objects">>, ""))
               ELSE Handle(Unhandled(query, raw_query,
                                     <<"fetch_objects">>, "fetch_objects"))

\* lines 183-197
HashtagBranch ==
    /\ Accepting
    /\ \E query \in Queries, c \in Correctors, fetched \in BOOLEAN :
        LET raw_query == Corrected(c, query)
            term == correct_spelling(c, Tail(raw_query))
            variants == expand_variants(term)
            all_objs == fetch_objects(records, FetchLimit)
        IN  /\ ~IsCommand(raw_query)
            /\ IsHashtag(raw_query)
            /\ NoLog
            /\ IF fetched
               THEN Handle([Entry(query, raw_query, "ok",
                        [method |-> "Hashtag",
                         matches |-> HashtagResults(variants, all_objs)],
                        <<"correct_spelling", "fetch_objects">>, "")
                        EXCEPT !.variants = variants])
               ELSE Handle([Unhandled(query, raw_query,
                        <<"correct_spelling", "fetch_objects">>, "fetch_objects")
                        EXCEPT !.variants = variants])

\* the test of line 210 inverted
SemanticSucceeded_inverted(objects) == objects = << >>

\* line 210: `if objects:`
SemanticSucceeded(objects) == objects # << >>

\* lines 199-217: spell check, rewrite, semantic search; the request ends here
\* when a call raises or the search returns objects
SemanticBranch ==
    /\ Accepting
    /\ \E query \in Queries, c \in Correctors :
        LET raw_query == Corrected(c, query)
            spell_checked == correct_spelling(c, raw_query)
        IN  /\ ~IsCommand(raw_query)
            /\ ~IsHashtag(raw_query)
            /\ \/ \* rewrite_query raises: nothing catches it
                  /\ NoLog
                  /\ Handle(Unhandled(query, raw_query,
                            <<"correct_spelling", "rewrite_query">>, "rewrite_query"))
               \/ \E answer \in Rewrites(spell_checked) :
                    LET rewritten == strip(answer)
                        calls == <<"correct_spelling", "rewrite_query", "near_text">>
                    IN  \/ \* near_text raises: HTTPException(status_code=500)
                           /\ NoLog
                           /\ Handle([Entry(query, raw_query, "http_500",
                                  [detail |-> "Semantic search failed"],
                                  calls, "near_text")
                                  EXCEPT !.rewritten = rewritten])
                        \/ \E found \in NearCounts :
                             LET objects == near_text(records, found, SemanticLimit)
                                 row == LogRow(clock, raw_query, rewritten,
                                               "Semantic", Len(objects))
                             IN  /\ SemanticSucceeded(objects)
                                 /\ log_query(raw_query, rewritten,
                                              "Semantic", Len(objects))
                                 /\ Handle([Entry(query, raw_query, "ok",
                                        [method |-> "Semantic",
                                         rewritten |-> rewritten,
                                         matches |-> ProjectAll(objects)],
                                        Append(calls, "log_query"), "")
                                        EXCEPT !.rewritten = rewritten,
                                               !.objects = Len(objects),
                                               !.logged = <<row>>])

\* lines 199-210 and 220-237: the semantic search returned no objects
FuzzyFallback ==
    /\ Accepting
    /\ \E query \in Queries, c \in Correctors, fetched \in BOOLEAN :
        LET raw_query == Corrected(c, query)
            spell_checked == correct_spelling(c, raw_query)
        IN  /\ ~IsCommand(raw_query)
            /\ ~IsHashtag(raw_query)
            /\ \E answer \in Rewrites(spell_checked), found \in NearCounts :
                 LET rewritten == strip(answer)
                     objects == near_text(records, found, SemanticLimit)
                     tokens == normalize_tokens(raw_query)
                     all_objs == fetch_objects(records, FetchLimit)
                     tags == AllTags(all_objs)
                     calls == <<"correct_spelling", "rewrite_query", "near_text",
                                "normalize_tokens", "fetch_objects">>
                 IN  /\ ~SemanticSucceeded(objects)
                     /\ IF ~fetched
                        THEN /\ NoLog
                             /\ Handle([Unhandled(query, raw_query, calls,
                                                  "fetch_objects")
                                        EXCEPT !.rewritten = rewritten])
                        ELSE \E matched_tags \in
                                    fuzzy_terms_match(tokens, tags, Threshold) :
                               LET filtered == Filtered(all_objs, matched_tags)
                                   method == IF filtered # << >>
                                             THEN "Fuzzy" ELSE "No Match"
                                   count == IF filtered # << >>
                                            THEN Len(filtered) ELSE 0
                                   row == LogRow(clock, raw_query, rewritten,
                                                 method, count)
                               IN  /\ log_query(raw_query, rewritten, method, count)
                                   /\ Handle([Entry(query, raw_query, "ok",
                                          [method |-> method,
                                           rewritten |-> rewritten,
                                           matches |-> IF filtered # << >>
                                                       THEN FuzzyMatches(filtered)
                                                       ELSE << >>],
                                          calls \o <<"fuzzy_terms_match", "log_query">>,
                                          "")
                                          EXCEPT !.rewritten = rewritten,
                                                 !.objects = Len(objects),
                                                 !.matched_tags = matched_tags,
                                                 !.filtered = Len(filtered),
                                                 !.logged = <<row>>])

(***************************************************************************)
(* log_query run by several threads at once (the handler is a plain `def`, *)
(* which FastAPI runs on a thread pool).  The file object buffers what     *)
(* csv.writer writes; leaving the `with` block flushes the buffer with one *)
(* append to the file.                                                     *)
(***************************************************************************)
\* the arguments the logging requests pass
LogJobs ==
    { <<<<"i","n","v","e","n","t","o","r","y">>, <<"i","n","v","e","n","t","o","r","y">>, "Semantic", 10>>,
      <<<<"%","t","h","e">>, <<"%","t","h","e">>, "No Match", 0>> }

\* lines 135-137: the timestamp is taken, then os.path.exists is asked
LogCheckExists(t) ==
    /\ pc[t] = "idle"
    /\ \E args \in LogJobs :
         job' = [job EXCEPT ![t] = LogRow(clock, args[1], args[2], args[3], args[4])]
    /\ clock' = clock + 1
    /\ write_header' = [write_header EXCEPT ![t] = ~fileExists]
    /\ pc' = [pc EXCEPT ![t] = "checked"]
    /\ UNCHANGED <<routerVars, log, fileExists, buf>>

\* line 138: open(log_file, "a") creates the file when it is absent
LogOpen(t) ==
    /\ pc[t] = "checked"
    /\ fileExists' = TRUE
    /\ pc' = [pc EXCEPT ![t] = "opened"]
    /\ UNCHANGED <<routerVars, log, clock, write_header, buf, job>>

\* lines 139-142: the header, when write_header, then the row
LogWrite(t) ==
    /\ pc[t] = "opened"
    /\ buf' = [buf EXCEPT ![t] = RowsWritten(write_header[t], job[t])]
    /\ pc' = [pc EXCEPT ![t] = "written"]
    /\ UNCHANGED <<routerVars, log, fileExists, clock, write_header, job>>

\* end of the `with` block: the buffered rows are appended to the file
LogClose(t) ==
    /\ pc[t] = "written"
    /\ log' = log \o buf[t]
    /\ pc' = [pc EXCEPT ![t] = "done"]
    /\ UNCHANGED <<routerVars, fileExists, clock, write_header, buf, job>>

Init ==
    /\ records \in {Collection(n) : n \in RecordCounts}
    /\ history = << >>
    /\ log = << >>
    /\ fileExists = FALSE
    /\ clock = 1
    /\ pc = [t \in Loggers |-> "idle"]
    /\ write_header = [t \in Loggers |-> FALSE]
    /\ buf = [t \in Loggers |-> << >>]
    /\ job = [t \in Loggers |-> << >>]

Next ==
    \/ DirectFilterBranch
    \/ HashtagBranch
    \/ SemanticBranch
    \/ FuzzyFallback

Spec == Init /\ [][Next]_vars

\* the log file before the logging requests arrive: absent, or written by an
\* earlier request
InitialLogs == { << >>, <<Header, LogRow(0, <<"i","n","v","e","n","t","o","r","y">>, <<"i","n","v","e","n","t","o","r","y">>, "Fuzzy", 3)>> }

InitLog ==
    /\ records = Collection(3)
    /\ history = << >>
    /\ log \in InitialLogs
    /\ fileExists = (log # << >>)
    /\ clock = 1
    /\ pc = [t \in Loggers |-> "idle"]
    /\ write_header = [t \in Loggers |-> FALSE]
    /\ buf = [t \in Loggers |-> << >>]
    /\ job = [t \in Loggers |-> << >>]

NextLog ==
    \E t \in Loggers :
        \/ LogCheckExists(t)
        \/ LogOpen(t)
        \/ LogWrite(t)
        \/ LogClose(t)

SpecLog == InitLog /\ [][NextLog]_vars

(***************************************************************************)
(* Properties.                                                             *)
(***************************************************************************)
Requests == DOMAIN history

Answered(e) == e.status = "ok"

Called(e, name) == name \in Range(e.calls)

\* a row is the header row (the fourth cell of any other row is a method label)
IsHeader(row) == row[4] = Header[4]

DataRows(rows) == SelectSeq(rows, LAMBDA r : ~IsHeader(r))

\* C1: every invocation of the handler appends exactly one row to the audit
\* log, whichever branch it takes and however the request ends.
C1_OneAuditEntryPerInvocation ==
    /\ \A i \in Requests : Len(history[i].logged) = 1
    /\ Len(DataRows(log)) = Len(history)

\* C2: a failing backend call (fetch_objects, near_text) ends in a normal
\* response with an empty result set and an error string, never in a fault.
C2_BackendFailureBecomesEmptyResponse ==
    \A i \in Requests :
        history[i].failed \in {"fetch_objects", "near_text"} =>
            /\ Answered(history[i])
            /\ "matches" \in DOMAIN history[i].body
            /\ history[i].body.matches = << >>
            /\ "error" \in DOMAIN history[i].body

\* C3: a failing rewriter call is caught: the request still ends with a
\* response that carries a strategy label.
C3_RewriterFailureIsCaught ==
    \A i \in Requests :
        history[i].failed = "rewrite_query" =>
            /\ Answered(history[i])
            /\ "method" \in DOMAIN history[i].body

\* the records whose sourceDetails contains, case-insensitively, a keyword
HasKeyword(r, keywords) == \E k \in keywords : contains(lower(r.sourceDetails), k)

\* C4: a query that, stripped and lowercased, is a key of the command table
\* is routed to Direct Filter on its uncorrected text whatever the corrector
\* does, calls neither rewriter nor semantic search nor fuzzy match, and the
\* response returned holds exactly the records with a mapped keyword.
C4_CommandAlwaysDirectFilter ==
    \A i \in Requests :
        LET e == history[i]
            key == lower(strip(e.query))
        IN  key \in DOMAIN command_filters =>
              /\ e.raw_query = strip(e.query)
              /\ ~Called(e, "rewrite_query")
              /\ ~Called(e, "near_text")
              /\ ~Called(e, "fuzzy_terms_match")
              /\ e.failed = "" =>
                   /\ Answered(e)
                   /\ e.body.method = "Direct Filter"
                   /\ Range(e.body.matches) =
                        { Project(records[n]) : n \in
                            {m \in DOMAIN records :
                               HasKeyword(records[m], command_filters[key])} }

NumericQueries == { <<"#","1",",","2","5","0">>, <<"#","1","2","5","0">>, <<"#","1","-","2","5","0">> }

HashtagAnswers(queries) ==
    { i \in Requests :
        /\ history[i].query \in queries
        /\ history[i].raw_query = history[i].query
        /\ Answered(history[i]) }

RECURSIVE WordCount(_)
WordCount(s) ==
    IF s = << >> THEN 0
    ELSE IF Head(s) = " " THEN WordCount(Tail(s))
    ELSE IF Len(s) = 1 \/ s[2] = " " THEN 1 + WordCount(Tail(s))
    ELSE WordCount(Tail(s))

\* C6: when the rewritten text has fewer than 4 words the semantic search is
\* not issued and the request goes to the fuzzy fallback.
C6_ShortRewriteSkipsSemantic ==
    \A i \in Requests :
        LET e == history[i]
        IN  (Called(e, "rewrite_query") /\ e.failed # "rewrite_query"
             /\ WordCount(e.rewritten) < 4) =>
                ~Called(e, "near_text")

Labels == {"Direct Filter", "Hashtag", "Semantic", "Fuzzy", "No Match"}

\* C7: every answered request carries exactly one strategy label, chosen
\* first-match-wins: Direct Filter for a command, else Hashtag for a query
\* starting with #, else Semantic when the semantic search returned a
\* record; the fuzzy match runs only after a semantic search that returned
\* nothing; Fuzzy only when a record has a matched tag; No Match, with no
\* matches, only when neither found anything.
C7_FirstMatchWins ==
    \A i \in Requests :
        LET e == history[i]
            command == lower(e.raw_query) \in DOMAIN command_filters
            hashtag == e.raw_query # << >> /\ e.raw_query[1] = "#"
            tagged == \E n \in DOMAIN records :
                          records[n].tags \cap e.matched_tags # {}
        IN  /\ Called(e, "fuzzy_terms_match") =>
                 Called(e, "near_text") /\ e.objects = 0
            /\ Answered(e) =>
                 /\ e.body.method \in Labels
                 /\ (e.body.method = "Direct Filter") <=> command
                 /\ (e.body.method = "Hashtag") <=> (~command /\ hashtag)
                 /\ e.objects > 0 => e.body.method = "Semantic"
                 /\ e.body.method = "Semantic" =>
                      Called(e, "near_text") /\ ~Called(e, "fuzzy_terms_match")
                 /\ e.body.method = "Fuzzy" =>
                      Called(e, "fuzzy_terms_match") /\ e.objects = 0 /\ tagged
                 /\ e.body.method = "No Match" =>
                      /\ Called(e, "fuzzy_terms_match")
                      /\ e.objects = 0
                      /\ ~tagged
                      /\ e.body.matches = << >>

\* C7 witness: one request answered Semantic and one answered Fuzzy
C7_Witness ==
    \E i, j \in Requests :
        /\ Answered(history[i]) /\ history[i].body.method = "Semantic"
        /\ Answered(history[j]) /\ history[j].body.method = "Fuzzy"

\* C8: a response labelled Semantic or Fuzzy holds at most 10 records.
C8_AtMostTenMatches ==
    \A i \in Requests :
        (Answered(history[i]) /\ history[i].body.method \in {"Semantic", "Fuzzy"}) =>
            Len(history[i].body.matches) <= 10

\* C8 witness: a Fuzzy response cut to 10 of more than 10 tagged records
C8_Witness ==
    \E i \in Requests :
        /\ Answered(history[i])
        /\ history[i].body.method = "Fuzzy"
        /\ history[i].filtered > 10
        /\ Len(history[i].body.matches) = 10

AllLogged == \A t \in Loggers : pc[t] = "done"

\* C9: when the concurrent log_query calls are over, the log holds the
\* header exactly once, as its first row, then one whole row per call.
C9_HeaderOnceRowsWhole ==
    AllLogged =>
        /\ log # << >>
        /\ IsHeader(log[1])
        /\ \A n \in DOMAIN log : IsHeader(log[n]) => n = 1
        /\ \A t \in Loggers :
              Cardinality({n \in DOMAIN log :
                             ~IsHeader(log[n]) /\ log[n] = job[t]}) = 1
        /\ Len(SelectSeq(DataRows(log), LAMBDA r : r[1] # 0)) = NumLoggers

\* C10: the Method and Count of a request's audit row are the method label
\* and the number of matches of the response to that request.
C10_AuditRowMatchesResponse ==
    \A i \in Requests :
        history[i].logged # << >> =>
            /\ history[i].logged[1][4] = history[i].body.method
            /\ history[i].logged[1][5] = Len(history[i].body.matches)
====
